---- MODULE Spec2Model ----
(***************************************************************************)
(* World model of example2.py: the coordinate transform (Xfm), the tile    *)
(* map (TileMap), the player's grid movement and collision (Player), the   *)
(* level menu (LevelMenu) and the event dispatch of Game.                  *)
(***************************************************************************)
EXTENDS Integers, Sequences, FiniteSets, TLC

VARIABLES
    state,        \* Game.state: "play" or "choose level"
    pos,          \* Player.pos, grid coordinates <<x, y>>
    tiles,        \* TileMap.tiles: name "(gx,gy)" -> tile record
    winsize,      \* os_window.get_size(): <<width, height>> in pixels
    level_names,  \* Game.level_names: [bound, list]; the attribute is unbound until open_load_menu
    selected,     \* LevelMenu.selected
    debug,        \* Game.debug
    store,        \* contents of the save file "level.json" (NoFile until written)
    pc,           \* "running", "exited" (sys.exit) or "crashed" (uncaught exception)
    last,         \* the handler the last event was dispatched to, and what it read
    ret,          \* the value that handler returned
    art,          \* Player.art: the four vertices of the drawn polygon, in pixels
    old_pos,      \* Player.old_pos: the pixel position animate() last saw
    debug_rect,   \* Player.debug_rect: [topleft, size]
    player_dt,    \* Player.dt: ms accumulated since the last animation update
    game_dt       \* Game.dt: ms the last frame took

\* the player's animation state
anim == <<art, old_pos, debug_rect, player_dt, game_dt>>

vars == <<state, pos, tiles, winsize, level_names, selected, debug, store, pc, last, ret,
          art, old_pos, debug_rect, player_dt, game_dt>>

----------------------------------------------------------------------------
(* Bounds of the model *)

\* window sizes a resize can produce: 800-25k x 450-25k for k in 0..MaxShrink
MaxShrink == 1
\* os.listdir returns at most MaxFiles names
MaxFiles == 2
\* the player's coordinates are explored within -1..MaxCoord
MaxCoord == 16
\* arbitrary tile maps are drawn over the cells (0..MaxCell) x (0..1)
MaxCell == 2
\* the transform is applied with tile sizes 1..MaxTileSize and the game's own
MaxTileSize == 4
\* and to pixel coordinates within one pixel of h half tiles, h in -MaxHalf..MaxHalf
MaxHalf == 5
\* at most MaxDrift moves are handled between two frames
MaxDrift == 1

----------------------------------------------------------------------------
(* Program constants *)

tile_size == 50
InitWidth == 800
InitHeight == 450
period == 50
wiggle == 3

ColorWest  == <<255, 200, 0>>
ColorEast  == <<0, 200, 0>>
ColorNorth == <<0, 200, 200>>
ColorSouth == <<255, 0, 200>>

\* sizes the window can be resized to
WinSizes == {<<InitWidth - 25 * k, InitHeight - 25 * k>> : k \in 0..MaxShrink}

\* Python values a handler can return
None == "None"
PyBool(b) == IF b THEN "True" ELSE "False"
NoFile == [absent |-> TRUE]

----------------------------------------------------------------------------
(* Xfm *)

\* mutant: ties go to the integer above
PyRound_half_up(n, d) == (2 * n + d) \div (2 * d)

\* Python 3 round() of the true quotient n/d (d > 0): nearest integer, ties to even
PyRound(n, d) ==
    LET q == n \div d
        r == n % d
    IN  IF 2 * r < d THEN q
        ELSE IF 2 * r > d THEN q + 1
        ELSE IF q % 2 = 0 THEN q ELSE q + 1

\* math.ceil(n/d), d > 0
PyCeil(n, d) == -((-n) \div d)

\* Xfm.pg and Xfm.gp for a game whose tile_size is ts
Xfm_pg(ts, p) == <<PyRound(p[1], ts), PyRound(p[2], ts)>>

\* mutant: the pixel point is the centre of the tile
Xfm_gp_centre(ts, p) == <<p[1] * ts + ts \div 2, p[2] * ts + ts \div 2>>

Xfm_gp(ts, p) == <<p[1] * ts, p[2] * ts>>

pg(p) == Xfm_pg(tile_size, p)

gp(p) == Xfm_gp(tile_size, p)

----------------------------------------------------------------------------
(* TileMap *)

\* f"({pos[0]},{pos[1]})"
Name(p) == "(" \o ToString(p[1]) \o "," \o ToString(p[2]) \o ")"

EmptyTiles == <<>>

\* self.tiles[name] = {...}: inserts, or overwrites the tile already at name
add_tile(t, name, topleft, size, color, collides) ==
    (name :> [rect |-> [topleft |-> topleft, size |-> size],
              color |-> color,
              collides |-> collides]) @@ t

RECURSIVE wall_vertical_loop(_, _, _, _, _, _, _)
wall_vertical_loop(t, color, ts, x, num_tiles, collides, n) ==
    IF n < num_tiles
    THEN LET topleft == <<x, ts * n>>
             p == pg(topleft)
         IN  wall_vertical_loop(
                 add_tile(t, Name(p), topleft, <<ts, ts>>, color, collides),
                 color, ts, x, num_tiles, collides, n + 1)
    ELSE t

make_wall_vertical(t, color, ts, x, num_tiles, collides) ==
    wall_vertical_loop(t, color, ts, x, num_tiles, collides, 0)

RECURSIVE wall_horizontal_loop(_, _, _, _, _, _, _)
wall_horizontal_loop(t, color, ts, y, num_tiles, collides, n) ==
    IF n < num_tiles
    THEN LET topleft == <<ts * n, y>>
             p == pg(topleft)
         IN  wall_horizontal_loop(
                 add_tile(t, Name(p), topleft, <<ts, ts>>, color, collides),
                 color, ts, y, num_tiles, collides, n + 1)
    ELSE t

make_wall_horizontal(t, color, ts, y, num_tiles, collides) ==
    wall_horizontal_loop(t, color, ts, y, num_tiles, collides, 0)

\* mutant: the previous mapping is kept
ClearTiles_keeps_old(old) == old

\* self.tiles = {}: the previous mapping is dropped
ClearTiles(old) == EmptyTiles

\* the wall positions and lengths make_tiles derives from the window size
WallRight(w) == w - tile_size
WallBottom(h) == h - tile_size
NumTilesVertical(h) == PyCeil(h, tile_size)
\* mutant: one tile more than the floor of the quotient
NumTilesHorizontal_floor_plus_one(w) == (w \div tile_size) + 1

NumTilesHorizontal(w) == PyCeil(w, tile_size)

MakeWalls(t0, size) ==
    LET window_width == size[1]
        window_height == size[2]
        left == 0
        top == 0
        right == WallRight(window_width)
        bottom == WallBottom(window_height)
        t1 == make_wall_vertical(t0, ColorWest, tile_size, left,
                                 NumTilesVertical(window_height), TRUE)
        t2 == make_wall_vertical(t1, ColorEast, tile_size, right,
                                 NumTilesVertical(window_height), TRUE)
        t3 == make_wall_horizontal(t2, ColorNorth, tile_size, top,
                                   NumTilesHorizontal(window_width), TRUE)
        t4 == make_wall_horizontal(t3, ColorSouth, tile_size, bottom,
                                   NumTilesHorizontal(window_width), TRUE)
    IN  t4

\* the walls built on an empty mapping, computed once per window size
WallsFromEmpty == [size \in WinSizes |-> MakeWalls(EmptyTiles, size)]

make_tiles(old, size) ==
    LET t0 == ClearTiles(old)
    IN  IF t0 = EmptyTiles /\ size \in WinSizes
        THEN WallsFromEmpty[size]
        ELSE MakeWalls(t0, size)

----------------------------------------------------------------------------
(* Player *)

PlayerCells(p) ==
    << <<p[1], p[2]>>, <<p[1] + 1, p[2]>>, <<p[1], p[2] + 1>>, <<p[1] + 1, p[2] + 1>> >>

\* the test is_collision applies to one of the four cells
TileCollides(t, cell) ==
    /\ Name(cell) \in DOMAIN t
    /\ t[Name(cell)].collides

\* mutant: the collides flag is not consulted
is_collision_any_tile(t, p) ==
    \E i \in 1..4 : Name(PlayerCells(p)[i]) \in DOMAIN t

is_collision(t, p) ==
    \E i \in 1..4 : TileCollides(t, PlayerCells(p)[i])

move_up(t, p) ==
    LET q == <<p[1], p[2] - 1>>
    IN  IF is_collision(t, q) THEN <<q[1], q[2] + 1>> ELSE q

\* mutant: the collision is tested at the position before the step
move_left_tests_old_pos(t, p) ==
    IF is_collision(t, p) THEN p ELSE <<p[1] - 1, p[2]>>

move_left(t, p) ==
    LET q == <<p[1] - 1, p[2]>>
    IN  IF is_collision(t, q) THEN <<q[1] + 1, q[2]>> ELSE q

move_down(t, p) ==
    LET q == <<p[1], p[2] + 1>>
    IN  IF is_collision(t, q) THEN <<q[1], q[2] - 1>> ELSE q

\* mutant: the step back after a collision is missing
move_right_no_undo(t, p) == <<p[1] + 1, p[2]>>

move_right(t, p) ==
    LET q == <<p[1] + 1, p[2]>>
    IN  IF is_collision(t, q) THEN <<q[1] - 1, q[2]>> ELSE q

\* Player.size
PlayerSize == <<tile_size * 2, tile_size * 2>>

\* pygame.Rect(topleft, size)
Rect(topleft, size) == [topleft |-> topleft, size |-> size]

\* rect.topleft, rect.topright, rect.bottomright, rect.bottomleft
RectCorners(r) ==
    LET x == r.topleft[1]
        y == r.topleft[2]
        w == r.size[1]
        h == r.size[2]
    IN  << <<x, y>>, <<x + w, y>>, <<x + w, y + h>>, <<x, y + h>> >>

\* Player._reset_art
reset_art(r) == RectCorners(r)

\* update_art_position: every vertex is shifted by the offset
ShiftArt(a, offset) == [i \in 1..4 |-> <<a[i][1] + offset[1], a[i][2] + offset[2]>>]

\* values of random.uniform(-w, w) the model draws
WiggleValues == {-wiggle, 0, wiggle}

\* the eight draws of one animation update, two per vertex
Draws == {<< <<a, b>>, <<b, a>>, <<-a, b>>, <<a, -b>> >> : a \in WiggleValues, b \in WiggleValues}

Wiggled(a, draw) == [i \in 1..4 |-> <<a[i][1] + draw[i][1], a[i][2] + draw[i][2]>>]

\* Player.__init__: the debug rect is built from pos as it is, in grid units
Player_init ==
    /\ old_pos = gp(<<1, 1>>)
    /\ debug_rect = Rect(<<1, 1>>, PlayerSize)
    /\ art = reset_art(Rect(<<1, 1>>, PlayerSize))
    /\ player_dt = 0
    /\ game_dt = 0

\* Player.animate
animate ==
    LET p == gp(pos)
        offset == <<p[1] - old_pos[1], p[2] - old_pos[2]>>
        dt == player_dt + game_dt
    IN  /\ debug_rect' = Rect(p, PlayerSize)
        /\ old_pos' = p
        /\ IF dt >= period
           THEN /\ player_dt' = 0
                /\ \E draw \in Draws : art' = Wiggled(reset_art(Rect(p, PlayerSize)), draw)
           ELSE /\ player_dt' = dt
                /\ art' = ShiftArt(art, offset)

----------------------------------------------------------------------------
(* LevelMenu *)

PyMax(a, b) == IF a >= b THEN a ELSE b
PyMin(a, b) == IF a <= b THEN a ELSE b

LevelMenu_move_up(sel) == PyMax(0, sel - 1)

\* mutant: the selection wraps to the first level
LevelMenu_move_down_wraps(names, sel) ==
    IF Len(names) = 0 THEN -1 ELSE (sel + 1) % Len(names)

LevelMenu_move_down(names, sel) ==
    LET num_levels == Len(names)
    IN  PyMin(num_levels - 1, sel + 1)

----------------------------------------------------------------------------
(* Environment: key events, window sizes, the levels directory *)

Keys == {"K_q", "K_F2", "K_UP", "K_DOWN", "K_LEFT", "K_RIGHT", "K_RETURN",
         "K_a", "K_d", "K_w", "K_s", "K_l", "K_SPACE"}

\* names that may be present in the directory "levels"
FileNames == {"level1.json", "level2json", "notes.txt"}

\* sequences over S of length at most n in which no element repeats
SeqsNoRepeat(S, n) ==
    {s \in UNION {[1..m -> S] : m \in 0..n} :
        \A i, j \in 1..Len(s) : i # j => s[i] # s[j]}

\* what os.listdir can return when the directory exists: any order, no repeats
Listings == SeqsNoRepeat(FileNames, MaxFiles)

\* os.listdir raised: the directory does not exist
Missing == <<"<FileNotFoundError>">>

\* open(save_file, 'w') raised: the file cannot be written
Unwritable == <<"<OSError>">>

InBox(p) == p[1] \in -1..MaxCoord /\ p[2] \in -1..MaxCoord

----------------------------------------------------------------------------
(* Game *)

startswith(s, prefix) ==
    Len(s) >= Len(prefix) /\ SubSeq(s, 1, Len(prefix)) = prefix

endswith(s, suffix) ==
    Len(s) >= Len(suffix) /\ SubSeq(s, Len(s) - Len(suffix) + 1, Len(s)) = suffix

\* the filter of open_load_menu
IsLevelName(name) == startswith(name, "level") /\ endswith(name, "json")

\* mutant: every name of the listing is kept
scan_levels_unfiltered(level_files) == level_files

RECURSIVE scan_levels(_)
scan_levels(level_files) ==
    IF level_files = <<>> THEN <<>>
    ELSE LET name == Head(level_files)
             rest == scan_levels(Tail(level_files))
         IN  IF IsLevelName(name) THEN <<name>> \o rest ELSE rest

\* json.dump of the tile mapping: tuples are written as JSON arrays
JsonArray(tuple) == [array |-> tuple]

json_dump(t) ==
    [k \in DOMAIN t |->
        [rect |-> [topleft |-> JsonArray(t[k].rect.topleft),
                   size |-> JsonArray(t[k].rect.size)],
         color |-> JsonArray(t[k].color),
         collides |-> t[k].collides]]

\* a handler that reads nothing from the environment
Called(handler) == [handler |-> handler, read |-> <<>>]

Init ==
    /\ winsize = <<InitWidth, InitHeight>>
    /\ tiles = make_tiles(EmptyTiles, <<InitWidth, InitHeight>>)
    /\ pos = <<1, 1>>
    /\ debug = TRUE
    /\ state = "play"
    /\ selected = 0
    /\ level_names = [bound |-> FALSE, list |-> <<>>]
    /\ store = NoFile
    /\ pc = "running"
    /\ last = Called("__init__")
    /\ ret = None
    /\ Player_init

\* sys.exit()
Exit ==
    /\ pc' = "exited"
    /\ last' = Called("exit")
    /\ ret' = None
    /\ UNCHANGED <<state, pos, tiles, winsize, level_names, selected, debug, store>>

\* a key no case matches
NoHandler ==
    /\ last' = Called("none")
    /\ ret' = None
    /\ UNCHANGED <<state, pos, tiles, winsize, level_names, selected, store, pc>>

PlayerMove(handler, tentative, newpos) ==
    /\ InBox(tentative)
    /\ pos' = newpos
    /\ last' = Called(handler)
    /\ ret' = None
    /\ UNCHANGED <<state, tiles, winsize, level_names, selected, store, pc>>

PlayerMoveLeft  == PlayerMove("move_left",  <<pos[1] - 1, pos[2]>>, move_left(tiles, pos))
PlayerMoveRight == PlayerMove("move_right", <<pos[1] + 1, pos[2]>>, move_right(tiles, pos))
PlayerMoveUp    == PlayerMove("move_up",    <<pos[1], pos[2] - 1>>, move_up(tiles, pos))
PlayerMoveDown  == PlayerMove("move_down",  <<pos[1], pos[2] + 1>>, move_down(tiles, pos))

\* Game.save: open(save_file, 'w') either succeeds and the dump is written,
\* or raises OSError, which nothing catches
save ==
    /\ ret' = None
    /\ \E writable \in BOOLEAN :
        IF writable
        THEN /\ last' = Called("save")
             /\ store' = json_dump(tiles)
             /\ pc' = pc
        ELSE /\ last' = [handler |-> "save", read |-> Unwritable]
             /\ store' = store
             /\ pc' = "crashed"
    /\ UNCHANGED <<state, pos, tiles, winsize, level_names, selected>>

\* Game.open_load_menu: the state is set first; os.listdir raises
\* FileNotFoundError when the directory is missing, which nothing catches
open_load_menu ==
    /\ ret' = None
    /\ state' = "choose level"
    /\ \E level_files \in Listings \cup {Missing} :
        /\ last' = [handler |-> "open_load_menu", read |-> level_files]
        /\ IF level_files = Missing
           THEN /\ pc' = "crashed"
                /\ UNCHANGED level_names
           ELSE /\ pc' = pc
                /\ level_names' = [bound |-> TRUE, list |-> scan_levels(level_files)]
    /\ UNCHANGED <<pos, tiles, winsize, selected, store>>

\* Python list indexing: valid for -len <= i < len
ValidIndex(names, i) == -Len(names) <= i /\ i < Len(names)

\* Game.load: formats the selected name for the log (IndexError when the
\* index is out of range) and does nothing else
load ==
    /\ last' = Called("load")
    /\ ret' = None
    /\ pc' = IF ValidIndex(level_names.list, selected) THEN pc ELSE "crashed"
    /\ UNCHANGED <<state, pos, tiles, winsize, level_names, selected, store>>

MenuUp ==
    /\ selected' = LevelMenu_move_up(selected)
    /\ last' = Called("level_menu.move_up")
    /\ ret' = None
    /\ UNCHANGED <<state, pos, tiles, winsize, level_names, store, pc>>

MenuDown ==
    /\ selected' = LevelMenu_move_down(level_names.list, selected)
    /\ last' = Called("level_menu.move_down")
    /\ ret' = None
    /\ UNCHANGED <<state, pos, tiles, winsize, level_names, store, pc>>

\* kmod & KMOD_CTRL, from pygame.key.get_mods(), is read where it is used
PlayKey(key) ==
    CASE key \in {"K_LEFT", "K_a"}  -> PlayerMoveLeft
      [] key \in {"K_RIGHT", "K_d"} -> PlayerMoveRight
      [] key \in {"K_UP", "K_w"}    -> PlayerMoveUp
      [] key = "K_DOWN"             -> PlayerMoveDown
      [] key = "K_s"                -> \/ save
                                       \/ PlayerMoveDown
      [] key = "K_l"                -> \/ open_load_menu
                                       \/ NoHandler
      [] OTHER                      -> NoHandler

\* mutant: a key the menu does not handle falls through to the cases of Play
ChooseLevelKey_falls_through(key) ==
    CASE key = "K_UP"     -> MenuUp
      [] key = "K_DOWN"   -> MenuDown
      [] key = "K_RETURN" -> load
      [] OTHER            -> PlayKey(key)

ChooseLevelKey(key) ==
    CASE key = "K_UP"     -> MenuUp
      [] key = "K_DOWN"   -> MenuDown
      [] key = "K_RETURN" -> load
      [] OTHER            -> NoHandler

\* mutant: F2 switches the debug display on
KEYDOWN_debug_on(key) ==
    /\ pc = "running"
    /\ IF key = "K_q"
       THEN Exit
       ELSE /\ debug' = IF key = "K_F2" THEN TRUE ELSE debug
            /\ IF state = "choose level"
               THEN ChooseLevelKey(key)
               ELSE PlayKey(key)
    /\ UNCHANGED anim

KEYDOWN(key) ==
    /\ pc = "running"
    /\ IF key = "K_q"
       THEN Exit
       ELSE /\ debug' = IF key = "K_F2" THEN ~debug ELSE debug
            /\ IF state = "choose level"
               THEN ChooseLevelKey(key)
               ELSE PlayKey(key)
    /\ UNCHANGED anim

QUIT ==
    /\ pc = "running"
    /\ Exit
    /\ UNCHANGED anim

WINDOWRESIZED(size) ==
    /\ pc = "running"
    /\ winsize' = size
    /\ tiles' = make_tiles(tiles, size)
    /\ last' = Called("make_tiles")
    /\ ret' = None
    /\ UNCHANGED <<state, pos, level_names, selected, debug, store, pc, anim>>

Next ==
    \/ \E key \in Keys : KEYDOWN(key)
    \/ QUIT
    \/ \E size \in WinSizes : WINDOWRESIZED(size)

Spec == Init /\ [][Next]_vars

----------------------------------------------------------------------------
(* Specification of the pure parts: is_collision and make_tiles applied to  *)
(* arbitrary tile maps and positions                                        *)

\* a tile as add_tile stores it, at grid cell c
TileAt(c, collides) ==
    [rect |-> [topleft |-> gp(c), size |-> <<tile_size, tile_size>>],
     color |-> ColorWest,
     collides |-> collides]

Cells == {<<x, y>> : x \in 0..MaxCell, y \in 0..1}

\* every map that gives each cell no tile, a tile that collides or one that does not
TileMaps ==
    UNION {{[n \in {Name(c) : c \in present} |->
                TileAt(CHOOSE c \in present : Name(c) = n, n \in {Name(c) : c \in solid})] :
            solid \in SUBSET present} : present \in SUBSET Cells}

Positions == {<<x, y>> : x \in -1..MaxCell, y \in -1..1}

InitTiles ==
    /\ winsize = <<InitWidth, InitHeight>>
    /\ tiles \in TileMaps
    /\ pos \in Positions
    /\ debug = TRUE
    /\ state = "play"
    /\ selected = 0
    /\ level_names = [bound |-> FALSE, list |-> <<>>]
    /\ store = NoFile
    /\ pc = "running"
    /\ last = Called("__init__")
    /\ ret = None
    /\ Player_init

CallIsCollision ==
    /\ pc = "running"
    /\ last' = Called("is_collision")
    /\ ret' = PyBool(is_collision(tiles, pos))
    /\ UNCHANGED <<state, pos, tiles, winsize, level_names, selected, debug, store, pc, anim>>

NextTiles ==
    \/ CallIsCollision
    \/ \E size \in WinSizes : WINDOWRESIZED(size)

SpecTiles == InitTiles /\ [][NextTiles]_vars

----------------------------------------------------------------------------
(* Specification of the coordinate transform: pg and gp applied to points   *)
(* around the tile boundaries, for several tile sizes                        *)

TileSizes == (1..MaxTileSize) \cup {tile_size}

\* coordinates at and next to every multiple of half a tile, and the small ones
Coords(ts) ==
    {(h * ts) \div 2 + d : h \in -MaxHalf..MaxHalf, d \in -1..1} \cup (-MaxHalf..MaxHalf)

XfmPoints(ts) == {<<x, y>> : x \in Coords(ts), y \in Coords(ts)}

\* a call of a method of Xfm on point p, in a game whose tile size is ts
XfmCall(method, ts, p) == [handler |-> method, read |-> <<>>, ts |-> ts, p |-> p]

InitXfm ==
    /\ winsize = <<InitWidth, InitHeight>>
    /\ tiles = make_tiles(EmptyTiles, <<InitWidth, InitHeight>>)
    /\ pos = <<1, 1>>
    /\ debug = TRUE
    /\ state = "play"
    /\ selected = 0
    /\ level_names = [bound |-> FALSE, list |-> <<>>]
    /\ store = NoFile
    /\ pc = "running"
    /\ \E ts \in TileSizes : \E p \in XfmPoints(ts) : last = XfmCall("Xfm", ts, p)
    /\ ret = None
    /\ Player_init

XfmUnchanged ==
    UNCHANGED <<state, pos, tiles, winsize, level_names, selected, debug, store, pc, anim>>

\* xfm.pg(p)
CallPg ==
    /\ last' = [last EXCEPT !.handler = "pg"]
    /\ ret' = Xfm_pg(last.ts, last.p)
    /\ XfmUnchanged

\* xfm.gp(p)
CallGp ==
    /\ last' = [last EXCEPT !.handler = "gp"]
    /\ ret' = Xfm_gp(last.ts, last.p)
    /\ XfmUnchanged

\* xfm.pg(xfm.gp(p))
CallPgGp ==
    /\ last' = [last EXCEPT !.handler = "pg(gp)"]
    /\ ret' = Xfm_pg(last.ts, Xfm_gp(last.ts, last.p))
    /\ XfmUnchanged

NextXfm == CallPg \/ CallGp \/ CallPgGp

SpecXfm == InitXfm /\ [][NextXfm]_vars

----------------------------------------------------------------------------
(* Specification of the frames: the game loop handles the movement keys of  *)
(* the frame, animates the player, renders and waits for the clock          *)

\* ms clock.get_time() returns after clock.tick(60): a frame on time, a late one
DtValues == {17, period}

ArrowKeys == {"K_LEFT", "K_RIGHT", "K_UP", "K_DOWN"}

\* grid steps between pos and the position animate() last saw
Drift ==
    LET p == gp(pos)
        dx == p[1] - old_pos[1]
        dy == p[2] - old_pos[2]
    IN  ((IF dx >= 0 THEN dx ELSE -dx) + (IF dy >= 0 THEN dy ELSE -dy)) \div tile_size

\* handle_events takes a movement key from the queue
HandleArrowKey ==
    /\ Drift < MaxDrift
    /\ \E key \in ArrowKeys : KEYDOWN(key)

\* the rest of game_loop: player_update, render, clock.tick, self.dt
game_loop ==
    /\ pc = "running"
    /\ animate
    /\ \E ms \in DtValues : game_dt' = ms
    /\ last' = Called("render")
    /\ ret' = None
    /\ UNCHANGED <<state, pos, tiles, winsize, level_names, selected, debug, store, pc>>

NextAnim == HandleArrowKey \/ game_loop

SpecAnim == Init /\ [][NextAnim]_vars

----------------------------------------------------------------------------
(* Claims *)

MoveHandlers == {"move_up", "move_down", "move_left", "move_right"}

\* pos shifted by one grid unit in the direction the handler moves
Shifted(handler, p) ==
    CASE handler = "move_up"    -> <<p[1], p[2] - 1>>
      [] handler = "move_down"  -> <<p[1], p[2] + 1>>
      [] handler = "move_left"  -> <<p[1] - 1, p[2]>>
      [] handler = "move_right" -> <<p[1] + 1, p[2]>>

\* the step is a movement command dispatched to the player in Play
IsMoveStep == pc = "running" /\ state = "play" /\ last'.handler \in MoveHandlers

\* C1 as stated: a movement command in Play whose tentative position collides
\* leaves pos as it was and reports false; one whose tentative position is free
\* moves pos there and reports true.
C1_MoveReportsResult ==
    [][IsMoveStep =>
        LET q == Shifted(last'.handler, pos)
        IN  IF is_collision(tiles, q)
            THEN pos' = pos /\ ret' = PyBool(FALSE)
            ELSE pos' = q /\ ret' = PyBool(TRUE)]_vars

\* C1 (amended): a movement command in Play whose tentative position collides
\* leaves pos as it was; one whose tentative position is free moves pos by
\* exactly one unit on the requested axis and leaves the other axis alone; in
\* both cases the move method returns None, no result is reported.
C1_MoveCommitsOrRejects ==
    [][IsMoveStep =>
        LET q == Shifted(last'.handler, pos)
        IN  /\ ret' = None
            /\ IF is_collision(tiles, q) THEN pos' = pos ELSE pos' = q]_vars

\* a move to the right was dispatched and the wall stopped it (or stops the next)
C1_Witness ==
    /\ state = "play"
    /\ last.handler = "move_right"
    /\ pos # <<1, 1>>
    /\ is_collision(tiles, Shifted("move_right", pos))

\* C2: is_collision(pos) is true exactly when one of the four cells pos,
\* pos+(1,0), pos+(0,1), pos+(1,1) names a tile of the map whose collides flag
\* is true; a missing tile or a tile with collides = false causes no collision.
C2_CollisionIffSolidCell ==
    last.handler = "is_collision" =>
        (ret = PyBool(TRUE)) <=>
            \E dx \in {0, 1}, dy \in {0, 1} :
                LET n == Name(<<pos[1] + dx, pos[2] + dy>>)
                IN  n \in DOMAIN tiles /\ tiles[n].collides = TRUE

\* the check ran over a player standing on a non-colliding tile and beside a
\* colliding one that it does not touch
C2_Witness ==
    /\ last.handler = "is_collision"
    /\ ret = PyBool(FALSE)
    /\ pos = <<0, 0>>
    /\ Name(<<1, 1>>) \in DOMAIN tiles
    /\ Name(<<2, 0>>) \in DOMAIN tiles
    /\ tiles[Name(<<2, 0>>)].collides

MoveOrSaveKeys == {"K_LEFT", "K_RIGHT", "K_UP", "K_DOWN", "K_a", "K_d", "K_w", "K_s"}
NavigateOrConfirmKeys == {"K_UP", "K_DOWN", "K_RETURN"}

\* C3: in ChooseLevel a movement or save command changes neither pos nor the
\* save file nor the tile map; in Play a navigate-up/down or confirm command
\* changes neither selected nor the tile map and never calls load.
C3_RoutingByMode ==
    [][/\ (state = "choose level" /\ \E key \in MoveOrSaveKeys : KEYDOWN(key))
            => pos' = pos /\ store' = store /\ tiles' = tiles
       /\ (state = "play" /\ \E key \in NavigateOrConfirmKeys : KEYDOWN(key))
            => selected' = selected /\ tiles' = tiles /\ last'.handler # "load"]_vars

\* a key was pressed in ChooseLevel that no case of that mode matches, away
\* from the player's starting cell and with a save file on disk
C3_Witness ==
    /\ state = "choose level"
    /\ pc = "running"
    /\ last.handler = "none"
    /\ pos # <<1, 1>>
    /\ store # NoFile

\* C4 as stated: a confirm in ChooseLevel on a valid selection moves the mode
\* to Play.
C4_ConfirmReturnsToPlay ==
    (last.handler = "load" /\ pc = "running") => state = "play"

\* what a level file of the directory may hold, deserialized: one floor tile
LevelFileTiles(name) == Name(<<3, 3>>) :> TileAt(<<3, 3>>, FALSE)

\* C5 as stated: after a successful confirm the tile map is exactly the
\* deserialized contents of the level file at selected: every tile of the file
\* with its attributes, and no tile of the previous map that the file lacks.
C5_ConfirmLoadsLevel ==
    (last.handler = "load" /\ pc = "running") =>
        LET file == LevelFileTiles(level_names.list[selected + 1])
        IN  /\ DOMAIN tiles = DOMAIN file
            /\ \A n \in DOMAIN file : tiles[n].collides = file[n].collides

NumLevels == Len(level_names.list)

\* C7: with at least one level, selected stays within 0..num_levels-1;
\* move_up at 0 and move_down at num_levels-1 leave it unchanged, and away
\* from the boundary each changes it by exactly 1.
C7_SelectedClamped ==
    /\ []((level_names.bound /\ NumLevels >= 1) => selected \in 0..(NumLevels - 1))
    /\ [][(pc = "running" /\ state = "choose level" /\ NumLevels >= 1) =>
            /\ last'.handler = "level_menu.move_up" =>
                   selected' = IF selected = 0 THEN 0 ELSE selected - 1
            /\ last'.handler = "level_menu.move_down" =>
                   selected' = IF selected = NumLevels - 1
                               THEN NumLevels - 1
                               ELSE selected + 1]_vars

\* move_down was dispatched with the last of two levels selected
C7_Witness ==
    /\ state = "choose level"
    /\ last.handler = "level_menu.move_down"
    /\ Len(level_names.list) = 2
    /\ selected = 1

\* the border of the window the program opens
StartTiles == MakeWalls(EmptyTiles, <<InitWidth, InitHeight>>)

\* the state the program starts in, whatever the last command was
AtStart ==
    /\ pc = "running"
    /\ state = "play"
    /\ pos = <<1, 1>>
    /\ winsize = <<InitWidth, InitHeight>>
    /\ tiles = StartTiles

\* C8: from the initial state (pos = (1,1), border of the 800x450 window, mode
\* Play) every move-left command is rejected: it leaves pos at (1,1) and the
\* program in a state where the next one is rejected too.
C8_LeftFromStartRejected ==
    /\ AtStart
    /\ [][(AtStart /\ last'.handler = "move_left") => (pos' = <<1, 1>> /\ AtStart')]_vars

\* a move-left has been dispatched and the player is at the starting cell
C8_Witness ==
    /\ AtStart
    /\ last.handler = "move_left"
    /\ is_collision(tiles, <<0, 1>>)

\* grid coordinates a border tile can have in the windows explored
GridRange == -1..20

\* the names of the cells of grid columns 0 and 15 and of grid rows 0 and 8
Column0 == {Name(<<0, gy>>) : gy \in GridRange}
Column15 == {Name(<<15, gy>>) : gy \in GridRange}
Row0 == {Name(<<gx, 0>>) : gx \in GridRange}
Row8 == {Name(<<gx, 8>>) : gx \in GridRange}

\* C9: the map rebuilt for an 800x450 window with tile_size 50 has exactly 9
\* tiles in grid column 0, 9 in column 15, 16 in row 0 and 16 in row 8, and
\* every tile of the map collides.
C9_BorderCounts ==
    (winsize = <<800, 450>> /\ tile_size = 50) =>
        /\ Cardinality(DOMAIN tiles \cap Column0) = 9
        /\ Cardinality(DOMAIN tiles \cap Column15) = 9
        /\ Cardinality(DOMAIN tiles \cap Row0) = 16
        /\ Cardinality(DOMAIN tiles \cap Row8) = 16
        /\ \A n \in DOMAIN tiles : tiles[n].collides = TRUE

\* the map was rebuilt for 800x450 by a resize event
C9_Witness ==
    /\ winsize = <<800, 450>>
    /\ last.handler = "make_tiles"

\* the border rule applied to an empty map, per window size
FreshBorder == [size \in WinSizes |-> MakeWalls(EmptyTiles, size)]

\* C10: after a rebuild the map is the one the border rule gives for the new
\* window size alone, whatever the map held before, and a second rebuild for
\* the same size leaves it as the first did.
C10_RebuildFromScratch ==
    [][last'.handler = "make_tiles" =>
        /\ tiles' = FreshBorder[winsize']
        /\ (last.handler = "make_tiles" /\ winsize' = winsize) => tiles' = tiles]_vars

\* the map has been rebuilt for a window that is no multiple of the tile size
C10_Witness ==
    /\ last.handler = "make_tiles"
    /\ winsize = <<775, 425>>
    /\ Name(<<1, 1>>) \notin DOMAIN tiles

Abs(n) == IF n >= 0 THEN n ELSE -n

\* n/d rounded to the nearest integer, a tie going away from zero
RoundHalfAway(n, d) ==
    IF n >= 0 THEN (2 * n + d) \div (2 * d) ELSE -((2 * (-n) + d) \div (2 * d))

\* C11 as stated: pixel_to_grid divides each axis by tile_size and rounds to
\* the nearest integer, a tie going away from zero; with tile_size 50
\* pixel_to_grid((125,75)) = (3,2) and grid_to_pixel((3,2)) = (150,100).
C11_RoundsHalfAwayFromZero ==
    /\ last.handler = "pg" =>
           ret = <<RoundHalfAway(last.p[1], last.ts), RoundHalfAway(last.p[2], last.ts)>>
    /\ (last.handler = "pg" /\ last.ts = 50 /\ last.p = <<125, 75>>) => ret = <<3, 2>>
    /\ (last.handler = "gp" /\ last.ts = 50 /\ last.p = <<3, 2>>) => ret = <<150, 100>>

\* C11 (amended): pixel_to_grid gives on each axis an integer nearest to the
\* quotient by tile_size, and the even one of the two when the quotient lies
\* halfway between them; with tile_size 50 pixel_to_grid((125,75)) = (2,2) and
\* grid_to_pixel((3,2)) = (150,100).
C11_RoundsHalfToEven ==
    /\ last.handler = "pg" =>
           \A i \in 1..2 :
               /\ 2 * Abs(last.p[i] - ret[i] * last.ts) <= last.ts
               /\ 2 * Abs(last.p[i] - ret[i] * last.ts) = last.ts => ret[i] % 2 = 0
    /\ (last.handler = "pg" /\ last.ts = 50 /\ last.p = <<125, 75>>) => ret = <<2, 2>>
    /\ (last.handler = "gp" /\ last.ts = 50 /\ last.p = <<3, 2>>) => ret = <<150, 100>>

\* pg was applied to (125,75) with tile size 50: both quotients are ties, one
\* between 2 and 3 and one between 1 and 2
C11_Witness ==
    /\ last.handler = "pg"
    /\ last.ts = 50
    /\ last.p = <<125, 75>>
    /\ ret = <<2, 2>>

\* C12: for every integer grid point p, negative coordinates included, and
\* every positive tile_size, pixel_to_grid(grid_to_pixel(p)) = p, and so
\* grid_to_pixel(pixel_to_grid(grid_to_pixel(p))) = grid_to_pixel(p).
C12_SnappedPointIsStable ==
    last.handler = "pg(gp)" =>
        /\ ret = last.p
        /\ Xfm_gp(last.ts, ret) = Xfm_gp(last.ts, last.p)

\* the round trip was made from a grid point with a negative and an odd
\* coordinate, with an even tile size other than the game's
C12_Witness ==
    /\ last.handler = "pg(gp)"
    /\ last.ts = 2
    /\ last.p = <<-3, 5>>
    /\ ret = <<-3, 5>>

\* C13 as stated: when the open-level-menu command is received in Play and
\* the levels directory does not exist, the mode becomes ChooseLevel with an
\* empty level-name list and the process keeps running.
C13_MissingDirectoryNonFatal ==
    (last.handler = "open_load_menu" /\ last.read = Missing) =>
        /\ state = "choose level"
        /\ level_names.bound
        /\ level_names.list = <<>>
        /\ pc = "running"

\* C14 as stated: when a save command in Play fails to write, the process is
\* not terminated, the tile map is what it was before the command and the
\* mode remains Play.
C14_FailedSaveNonFatal ==
    [][(last'.handler = "save" /\ last'.read = Unwritable) =>
        /\ pc' = "running"
        /\ tiles' = tiles
        /\ state' = "play"]_vars

\* the pattern level*.json
MatchesLevelGlob(name) == startswith(name, "level") /\ endswith(name, ".json")

\* C15 as stated: after the scan a file name of the levels directory is in
\* the level-name list if and only if it starts with "level" and ends with
\* ".json"; every other name is left out.
C15_ScanKeepsLevelDotJson ==
    (last.handler = "open_load_menu" /\ pc = "running") =>
        \A i \in 1..Len(last.read) :
            (\E j \in 1..Len(level_names.list) : level_names.list[j] = last.read[i])
                <=> MatchesLevelGlob(last.read[i])

\* the tile map a saved document describes: each JSON array read back as the
\* tuple it was written from
Deserialized(doc) ==
    [k \in DOMAIN doc |->
        [rect |-> [topleft |-> doc[k].rect.topleft.array,
                   size |-> doc[k].rect.size.array],
         color |-> doc[k].color.array,
         collides |-> doc[k].collides]]

\* C16 as stated: deserializing the document the save command wrote for a
\* rebuilt map m gives a map identical to m. The program deserializes on a
\* confirm in the level menu; the level confirmed is taken to hold the
\* document of the last save.
C16_SavedDocumentRoundTrips ==
    (last.handler = "load" /\ pc = "running" /\ store # NoFile) =>
        tiles = Deserialized(store)

\* C17: a toggle-debug command, in Play and in ChooseLevel alike, flips the
\* debug flag (so that a second toggle restores it) and changes neither the
\* mode nor pos nor selected nor the tile map, nor the level list, the save
\* file or whether the program runs.
C17_ToggleDebugOnly ==
    /\ [](debug \in BOOLEAN)
    /\ [][KEYDOWN("K_F2") =>
            /\ debug' = ~debug
            /\ UNCHANGED <<state, pos, selected, tiles, level_names, store, pc>>]_vars

\* the debug display is off in the level menu, with the second level selected
\* and the player away from the starting cell
C17_Witness ==
    /\ state = "choose level"
    /\ pc = "running"
    /\ debug = FALSE
    /\ selected = 1
    /\ pos # <<1, 1>>
    /\ last.handler = "none"

\* C18 as stated: in every reachable state none of the four grid cells the
\* player occupies (pos, pos+(1,0), pos+(0,1), pos+(1,1)) holds a tile with
\* collides = true.
C18_PlayerNeverInWall ==
    \A dx \in {0, 1}, dy \in {0, 1} :
        LET n == Name(<<pos[1] + dx, pos[2] + dy>>)
        IN  ~(n \in DOMAIN tiles /\ tiles[n].collides)

\* C19 as stated: after a rebuild, for any window size, every tile sits at
\* the pixel position of its key: the tile at key "(gx,gy)" has
\* rect.topleft = grid_to_pixel((gx,gy)) = (gx*tile_size, gy*tile_size).
C19_TileSitsAtItsKey ==
    last.handler = "make_tiles" =>
        \A gx \in GridRange, gy \in GridRange :
            LET n == Name(<<gx, gy>>)
            IN  n \in DOMAIN tiles =>
                    tiles[n].rect.topleft = <<gx * tile_size, gy * tile_size>>

\* C20 as stated: for every level list the scan can return, the empty one
\* included, selected is never negative, and whenever a confirm command is
\* dispatched selected is a valid index into the level-name list
\* (0 <= selected < num_levels), so that the confirm does not fail.
C20_SelectionAlwaysValid ==
    /\ selected >= 0
    /\ last.handler = "load" =>
           /\ selected \in 0..(NumLevels - 1)
           /\ pc = "running"

\* the corners of the rectangle at grid_to_pixel(pos) with the player's size
PlayerCorners == RectCorners(Rect(gp(pos), PlayerSize))

\* every vertex of the polygon is within the wiggle amplitude, per axis, of
\* its corner
ArtNearPlayer ==
    \A i \in 1..4 : \A axis \in 1..2 :
        /\ art[i][axis] - PlayerCorners[i][axis] <= wiggle
        /\ PlayerCorners[i][axis] - art[i][axis] <= wiggle

\* C21 as stated: at every render, from the first frame on, each of the four
\* vertices of the drawn polygon is within 3 pixels, per axis, of the
\* corresponding corner of the rectangle at grid_to_pixel(pos) with the
\* player's size.
C21_ArtFollowsPlayer ==
    last.handler = "render" => ArtNearPlayer

====
